---- MODULE Spec2Model ----
(***************************************************************************)
(* A model of modules/TreeWriter.cc (Delphes): the module that projects    *)
(* the candidate graph of one event into flat output records.              *)
(*                                                                         *)
(* Candidates are numbered 1..NCand; a candidate's number is its unique    *)
(* identifier (TObject::GetUniqueID), 0 is the null pointer / "no id".     *)
(* Doubles are kept exact: momenta and positions are integer vectors, a    *)
(* converted time is the pair <<t, 1>> (t * 1.0E-3/c_light) against the    *)
(* raw <<t, 0>>, a ratio is a reduced fraction, and the value of a         *)
(* library angle formula is the term <<"Eta", x, y, z>>.                   *)
(***************************************************************************)
EXTENDS Integers, Sequences, FiniteSets, TLC

VARIABLES
    children,    \* Candidate::GetCandidates(): candidate -> sequence of candidates
    subjets,     \* Candidate::GetSubjets()
    tracks,      \* Candidate::GetTracks()
    cand,        \* the scalar fields of every candidate
    arrays,      \* the TObjArrays ImportArray resolves: name -> sequence of candidates
    param,       \* GetParam("Branch"): the flat list of configuration strings
    state,       \* "unconfigured", "configured" or "aborted"
    fBranchMap,  \* the registry: branch -> (method, array)
    order,       \* the iteration order of fBranchMap (std::map keyed by pointers)
    sinks,       \* the records each branch holds
    errlog,      \* the class names Init reported on cout
    calls,       \* history: the projector calls of the last Process
    hist,        \* history: what each Process that started on empty sinks wrote
    fillCand,    \* FillParticles: the candidate argument
    fillArr,     \* FillParticles: the TRefArray argument
    fillPrior,   \* history: the TRefArray before the call
    fillDone     \* history: FillParticles has returned

vars == <<children, subjets, tracks, cand, arrays, param, state, fBranchMap,
          order, sinks, errlog, calls, hist, fillCand, fillArr, fillPrior, fillDone>>

(***************************************************************************)
(* Bounds                                                                  *)
(***************************************************************************)
NCand == 5        \* candidates in the event
MaxKids == 2      \* children per candidate
NFill == 4        \* candidates of the graphs FillParticles is run on
MaxArr == 2       \* candidates per input array
MaxBranches == 2  \* configured triples
MaxRuns == 2      \* Process calls on empty sinks that are remembered

Cand == 1..NCand
FillCands == 1..NFill

(***************************************************************************)
(* Sequence helpers                                                        *)
(***************************************************************************)
SeqsUpTo(S, n) == UNION {[1..k -> S] : k \in 0..n}

Range(s) == {s[i] : i \in DOMAIN s}

NoDup(s) == \A i, j \in DOMAIN s : i # j => s[i] # s[j]

RECURSIVE SumOver(_, _)
SumOver(f, s) == IF s = <<>> THEN 0 ELSE f[Head(s)] + SumOver(f, Tail(s))

RECURSIVE Concat(_)
Concat(ss) == IF ss = <<>> THEN <<>> ELSE Head(ss) \o Concat(Tail(ss))

(***************************************************************************)
(* ROOT containers as the source uses them                                 *)
(***************************************************************************)
\* TObjArray::GetEntriesFast()
GetEntriesFast(s) == Len(s)

\* TObjArray::At(0): the first element, the null pointer in an empty array
At0(s) == IF Len(s) = 0 THEN 0 ELSE s[1]

\* TRefArray::Add(obj): appends a reference; a null pointer is not stored
RefAdd(array, obj) == IF obj = 0 THEN array ELSE Append(array, obj)

(***************************************************************************)
(* TreeWriter::FillParticles                                               *)
(***************************************************************************)
\* the loop of lines 163-166 over the children it2 of one child
RECURSIVE FillTower(_, _)
FillTower(it2, array) ==
    IF it2 = <<>> THEN array
    ELSE FillTower(Tail(it2), RefAdd(array, At0(children[Head(it2)])))

\* the loop of lines 142-167 over the direct children it1
RECURSIVE FillLoop(_, _)
FillLoop(it1, array) ==
    IF it1 = <<>> THEN array
    ELSE LET c == Head(it1)
             t == At0(children[c])
         IN  IF GetEntriesFast(children[c]) = 0
             THEN FillLoop(Tail(it1), RefAdd(array, c))
             ELSE IF GetEntriesFast(children[t]) = 0
                  THEN FillLoop(Tail(it1), RefAdd(array, t))
                  ELSE FillLoop(Tail(it1), FillTower(children[c], array))

\* a FillParticles that keeps what the list held (no array->Clear())
FillParticlesNoClear(candidate, array) == FillLoop(children[candidate], array)

\* a FillParticles that stores a candidate once only
RECURSIVE Dedup(_, _)
Dedup(s, seen) ==
    IF s = <<>> THEN seen
    ELSE Dedup(Tail(s), IF Head(s) \in Range(seen) THEN seen ELSE Append(seen, Head(s)))

FillParticlesDedup(candidate, array) == Dedup(FillLoop(children[candidate], <<>>), <<>>)

\* lines 139-167: array->Clear(), then the loop
FillParticles(candidate, array) ==
    LET cleared == <<>>
    IN  FillLoop(children[candidate], cleared)

(***************************************************************************)
(* The candidates of the event.  Momentum and Position are TLorentzVectors *)
(* (X, Y, Z, T = Px, Py, Pz, E for a momentum).  The fields of candidate c *)
(* are read off the lists below, so that the candidates an array or a      *)
(* children sequence names decide which values a projector sees.           *)
(***************************************************************************)
Vec(x, y, z, t) == [X |-> x, Y |-> y, Z |-> z, T |-> t]

\* off the beam axis (pt 5), on it (+z), the null vector, on the axis (-z),
\* off it (pt 1), off it (pt 5 again)
MomList == << Vec(3, 4, 0, 5), Vec(0, 0, 2, 2), Vec(0, 0, 0, 0),
              Vec(0, 0, -2, 2), Vec(1, 0, 0, 1), Vec(4, 3, 1, 6) >>

PosList == << Vec(1, 2, 3, 1000), Vec(0, 0, 5, 0), Vec(0, 0, -5, 2000),
              Vec(0, 0, 0, 0) >>

\* calorimeter deposits <<Eem, Ehad>>: never negative
DepositList == << <<2, 4>>, <<0, 0>>, <<3, 0>>, <<0, 5>>, <<1, 1>> >>

\* <<Zd, trkPar[Z0]>>: the fifth disagrees
ZList == << <<0, 0>>, <<1, 1>>, <<2, 2>>, <<3, 3>>, <<1, 2>> >>

Pick(list, c) == list[((c - 1) % Len(list)) + 1]

CandFields(c) ==
    [ Momentum |-> Pick(MomList, c),
      Position |-> Pick(PosList, c),
      Eem      |-> Pick(DepositList, c)[1],
      Ehad     |-> Pick(DepositList, c)[2],
      PID      |-> 10 + c,
      Charge   |-> (c % 3) - 1,
      Dxy      |-> c % 2,
      Zd       |-> Pick(ZList, c)[1],
      trkPar   |-> [D0 |-> c % 2, Z0 |-> Pick(ZList, c)[2]],
      IsolationVar |-> c % 4,
      Area     |-> c ]

(***************************************************************************)
(* Kinematics: TLorentzVector and TMath as the projectors call them        *)
(***************************************************************************)
ISqrt(n) == CHOOSE r \in 0..n : r * r <= n /\ (r + 1) * (r + 1) > n

\* TLorentzVector::Pt()
Pt(v) == ISqrt(v.X * v.X + v.Y * v.Y)

\* TMath::Abs(v.CosTheta()) == 1.0: CosTheta() is Z/|v|, and 1 for the null vector
AbsCosThetaIsOne(v) == v.X = 0 /\ v.Y = 0

\* the value the library computes: TLorentzVector::Eta(), Rapidity(), Phi(), M()
LibEta(v) == <<"Eta", v.X, v.Y, v.Z>>
LibRapidity(v) == <<"Rapidity", v.Z, v.T>>
LibPhi(v) == <<"Phi", v.X, v.Y>>
LibM(v) == <<"M", v.X, v.Y, v.Z, v.T>>

\* signz*999.9
Sentinel(sign) == <<"999.9", sign>>

\* -momentum
Neg(v) == Vec(0 - v.X, 0 - v.Y, 0 - v.Z, 0 - v.T)

\* lines 194-197: (cosTheta == 1.0 ? signPz*999.9 : momentum.Eta())
EtaOf(v) ==
    LET signPz == IF v.Z >= 0 THEN 1 ELSE -1
    IN  IF AbsCosThetaIsOne(v) THEN Sentinel(signPz) ELSE LibEta(v)

RapidityOf(v) ==
    LET signPz == IF v.Z >= 0 THEN 1 ELSE -1
    IN  IF AbsCosThetaIsOne(v) THEN Sentinel(signPz) ELSE LibRapidity(v)

\* position.T()*1.0E-3/c_light: <<t, 1>> is t scaled, <<t, 0>> is t itself;
\* zero scaled is zero
TimeRaw(t) == <<t, 0>>

TimeOf(t) == IF t = 0 THEN <<0, 0>> ELSE <<t, 1>>

RECURSIVE Gcd(_, _)
Gcd(a, b) == IF b = 0 THEN a ELSE Gcd(b, a % b)

\* hcal/ecal as a reduced fraction (ecal > 0)
Quotient(n, d) == <<"ratio", n \div Gcd(n, d), d \div Gcd(n, d)>>

\* candidate->Eem > 0.0 ? candidate->Ehad/candidate->Eem : 999.9
RatioAlways(hcal, ecal) == IF ecal = 0 THEN <<"inf", 1>> ELSE Quotient(hcal, ecal)

EhadOverEemOf(hcal, ecal) == IF ecal > 0 THEN Quotient(hcal, ecal) ELSE Sentinel(1)

(***************************************************************************)
(* Candidate::Compare and TObjArray::Sort(): descending transverse         *)
(* momentum, equal momenta kept in their order                             *)
(***************************************************************************)
RECURSIVE InsertByPt(_, _)
InsertByPt(c, sorted) ==
    IF sorted = <<>> THEN <<c>>
    ELSE IF Pt(cand[Head(sorted)].Momentum) >= Pt(cand[c].Momentum)
         THEN <<Head(sorted)>> \o InsertByPt(c, Tail(sorted))
         ELSE <<c>> \o sorted

RECURSIVE SortFrom(_, _)
SortFrom(rest, sorted) ==
    IF rest = <<>> THEN sorted
    ELSE SortFrom(Tail(rest), InsertByPt(Head(rest), sorted))

Sort(array) == SortFrom(array, <<>>)

(***************************************************************************)
(* The projectors.  Each takes the candidates its array holds and the      *)
(* outcome ub of a read through a null pointer (0: the process dies there, *)
(* k > 0: the read yields PosList[k]), and returns the records it appended *)
(* to its branch (recs), the array as it leaves it (arr) and whether it    *)
(* returned (ok).  A record's UniqueID is 0 unless SetUniqueID is called.  *)
(***************************************************************************)
Done(recs, arr) == [recs |-> recs, arr |-> arr, ok |-> TRUE]

Died(recs, arr) == [recs |-> recs, arr |-> arr, ok |-> FALSE]

\* lines 183-228
ParticleEntry(c) ==
    LET momentum == cand[c].Momentum
        position == cand[c].Position
    IN  [ UniqueID |-> c, PID |-> cand[c].PID, Charge |-> cand[c].Charge,
          E |-> momentum.T, Px |-> momentum.X, Py |-> momentum.Y, Pz |-> momentum.Z,
          Eta |-> EtaOf(momentum), Phi |-> LibPhi(momentum), PT |-> Pt(momentum),
          Rapidity |-> RapidityOf(momentum),
          X |-> position.X, Y |-> position.Y, Z |-> position.Z,
          T |-> TimeOf(position.T) ]

ProcessParticles(array, ub) ==
    Done([i \in DOMAIN array |-> ParticleEntry(array[i])], array)

\* a vertex whose time is not converted
VertexEntryRawT(c) ==
    LET position == cand[c].Position
    IN  [ UniqueID |-> 0, X |-> position.X, Y |-> position.Y, Z |-> position.Z,
          T |-> TimeRaw(position.T) ]

\* lines 243-253
VertexEntry(c) ==
    LET position == cand[c].Position
    IN  [ UniqueID |-> 0, X |-> position.X, Y |-> position.Y, Z |-> position.Z,
          T |-> TimeOf(position.T) ]

ProcessVertices(array, ub) ==
    Done([i \in DOMAIN array |-> VertexEntry(array[i])], array)

\* lines 259-268, on the integers the candidates hold: a difference of zero
\* passes, any other is a relative difference above 1e-9 (infinite for quant1 = 0)
compare(quant1, quant2) ==
    LET diff == quant1 - quant2
    IN  IF diff = 0 THEN TRUE ELSE FALSE

\* lines 269-273
check_d0_z0(track) ==
    /\ compare(track.Zd, track.trkPar.Z0)
    /\ compare(track.Dxy, track.trkPar.D0)

\* lines 288-335: the entry as it stands at the assert and up to line 335
TrackEntry(c) ==
    LET position == cand[c].Position
        momentum == cand[c].Momentum
    IN  [ UniqueID |-> c, PID |-> cand[c].PID, Charge |-> cand[c].Charge,
          EtaOuter |-> EtaOf(position), PhiOuter |-> LibPhi(position),
          XOuter |-> position.X, YOuter |-> position.Y, ZOuter |-> position.Z,
          TOuter |-> TimeOf(position.T),
          Dxy |-> cand[c].Dxy, Zd |-> cand[c].Zd, trkPar |-> cand[c].trkPar,
          Eta |-> EtaOf(momentum), Phi |-> LibPhi(momentum), PT |-> Pt(momentum),
          X |-> 0, Y |-> 0, Z |-> 0, T |-> <<0, 0>>, Particle |-> 0 ]

\* lines 337-345: the originating particle's position
TrackOrigin(entry, particle, initialPosition) ==
    [entry EXCEPT !.X = initialPosition.X, !.Y = initialPosition.Y,
                  !.Z = initialPosition.Z, !.T = TimeOf(initialPosition.T),
                  !.Particle = particle]

RECURSIVE TracksLoop(_, _, _, _)
TracksLoop(it, recs, array, ub) ==
    IF it = <<>> THEN Done(recs, array)
    ELSE LET candidate == Head(it)
             entry == TrackEntry(candidate)
             particle == At0(children[candidate])
         IN  IF ~check_d0_z0(entry)
             THEN Died(Append(recs, entry), array)            \* assert, line 323
             ELSE IF particle = 0
                  THEN IF ub = 0                              \* particle->Position
                       THEN Died(Append(recs, entry), array)
                       ELSE TracksLoop(Tail(it),
                                Append(recs, TrackOrigin(entry, 0, PosList[ub])),
                                array, ub)
                  ELSE TracksLoop(Tail(it),
                           Append(recs, TrackOrigin(entry, particle,
                                                    cand[particle].Position)),
                           array, ub)

ProcessTracks(array, ub) == TracksLoop(array, <<>>, array, ub)

\* lines 361-392
TowerEntry(c) ==
    LET momentum == cand[c].Momentum
        position == cand[c].Position
    IN  [ UniqueID |-> c, Eta |-> EtaOf(momentum), Phi |-> LibPhi(momentum),
          ET |-> Pt(momentum), E |-> momentum.T,
          Eem |-> cand[c].Eem, Ehad |-> cand[c].Ehad,
          T |-> TimeOf(position.T), Particles |-> FillParticles(c, <<>>) ]

ProcessTowers(array, ub) ==
    Done([i \in DOMAIN array |-> TowerEntry(array[i])], array)

\* lines 409-443
PhotonEntry(c) ==
    LET momentum == cand[c].Momentum
        position == cand[c].Position
    IN  [ UniqueID |-> 0, Eta |-> EtaOf(momentum), Phi |-> LibPhi(momentum),
          PT |-> Pt(momentum), E |-> momentum.T, T |-> TimeOf(position.T),
          IsolationVar |-> cand[c].IsolationVar,
          EhadOverEem |-> EhadOverEemOf(cand[c].Ehad, cand[c].Eem),
          Particles |-> FillParticles(c, <<>>) ]

\* a ProcessPhotons without line 405
ProcessPhotonsUnsorted(array, ub) ==
    Done([i \in DOMAIN array |-> PhotonEntry(array[i])], array)

ProcessPhotons(array, ub) ==
    LET sorted == Sort(array)
    IN  Done([i \in DOMAIN sorted |-> PhotonEntry(sorted[i])], sorted)

\* lines 460-494
ElectronEntry(c) ==
    LET momentum == cand[c].Momentum
        position == cand[c].Position
    IN  [ UniqueID |-> 0, Eta |-> EtaOf(momentum), Phi |-> LibPhi(momentum),
          PT |-> Pt(momentum), T |-> TimeOf(position.T),
          IsolationVar |-> cand[c].IsolationVar, Charge |-> cand[c].Charge,
          EhadOverEem |-> <<"ratio", 0, 1>>,
          Particle |-> At0(children[c]) ]

ProcessElectrons(array, ub) ==
    LET sorted == Sort(array)
    IN  Done([i \in DOMAIN sorted |-> ElectronEntry(sorted[i])], sorted)

\* lines 512-546
MuonEntry(c) ==
    LET momentum == cand[c].Momentum
        position == cand[c].Position
    IN  [ UniqueID |-> c, Eta |-> EtaOf(momentum), Phi |-> LibPhi(momentum),
          PT |-> Pt(momentum), T |-> TimeOf(position.T),
          IsolationVar |-> cand[c].IsolationVar, Charge |-> cand[c].Charge,
          Particle |-> At0(children[c]) ]

ProcessMuons(array, ub) ==
    LET sorted == Sort(array)
    IN  Done([i \in DOMAIN sorted |-> MuonEntry(sorted[i])], sorted)

\* lines 662-671: the references added and the two sums
RECURSIVE Constituents(_, _)
Constituents(it, acc) ==
    IF it = <<>> THEN acc
    ELSE LET constituent == Head(it)
         IN  Constituents(Tail(it),
                 [refs |-> RefAdd(acc.refs, constituent),
                  ecalEnergy |-> acc.ecalEnergy + cand[constituent].Eem,
                  hcalEnergy |-> acc.hcalEnergy + cand[constituent].Ehad])

\* lines 676-690: a straight copy of an edge set
RECURSIVE CopyRefs(_, _)
CopyRefs(it, refs) ==
    IF it = <<>> THEN refs ELSE CopyRefs(Tail(it), RefAdd(refs, Head(it)))

\* lines 577-717
JetEntry(c) ==
    LET momentum == cand[c].Momentum
        position == cand[c].Position
        sums == Constituents(children[c],
                    [refs |-> <<>>, ecalEnergy |-> 0, hcalEnergy |-> 0])
    IN  [ UniqueID |-> 0, Eta |-> EtaOf(momentum), Phi |-> LibPhi(momentum),
          PT |-> Pt(momentum), T |-> TimeOf(position.T), Mass |-> LibM(momentum),
          Area |-> cand[c].Area, Charge |-> cand[c].Charge,
          Constituents |-> sums.refs,
          EhadOverEem |-> EhadOverEemOf(sums.hcalEnergy, sums.ecalEnergy),
          Subjets |-> CopyRefs(subjets[c], <<>>),
          Tracks |-> CopyRefs(tracks[c], <<>>),
          Particles |-> FillParticles(c, <<>>) ]

ProcessJets(array, ub) ==
    LET sorted == Sort(array)
    IN  Done([i \in DOMAIN sorted |-> JetEntry(sorted[i])], sorted)

\* a missing-energy projector that takes its angles from the visible momentum
ProcessMissingETVisible(array, ub) ==
    LET candidate == At0(array)
    IN  IF candidate # 0
        THEN LET momentum == cand[candidate].Momentum
             IN  Done(<< [ UniqueID |-> 0, Eta |-> LibEta(momentum),
                           Phi |-> LibPhi(momentum), MET |-> Pt(momentum) ] >>,
                      array)
        ELSE Done(<<>>, array)

\* lines 728-737
ProcessMissingET(array, ub) ==
    LET candidate == At0(array)
    IN  IF candidate # 0
        THEN LET momentum == cand[candidate].Momentum
             IN  Done(<< [ UniqueID |-> 0, Eta |-> LibEta(Neg(momentum)),
                           Phi |-> LibPhi(Neg(momentum)), MET |-> Pt(momentum) ] >>,
                      array)
        ELSE Done(<<>>, array)

\* lines 748-755
ProcessScalarHT(array, ub) ==
    LET candidate == At0(array)
    IN  IF candidate # 0
        THEN Done(<< [ UniqueID |-> 0, HT |-> Pt(cand[candidate].Momentum) ] >>, array)
        ELSE Done(<<>>, array)

\* a pileup-density projector that sorts its array as the photon one does
ProcessRhoSorted(array, ub) ==
    LET sorted == Sort(array)
    IN  Done([i \in DOMAIN sorted |-> [ UniqueID |-> 0, Rho |-> cand[sorted[i]].Momentum.T ]],
             sorted)

\* lines 768-777
RhoEntry(c) == [ UniqueID |-> 0, Rho |-> cand[c].Momentum.T ]

ProcessRho(array, ub) ==
    Done([i \in DOMAIN array |-> RhoEntry(array[i])], array)

\* lines 788-795
ProcessWeight(array, ub) ==
    LET candidate == At0(array)
    IN  IF candidate # 0
        THEN Done(<< [ UniqueID |-> 0, Weight |-> cand[candidate].Momentum.T ] >>, array)
        ELSE Done(<<>>, array)

\* lines 808-827
HectorHitEntry(c) ==
    LET position == cand[c].Position
        momentum == cand[c].Momentum
    IN  [ UniqueID |-> 0, E |-> momentum.T, Tx |-> momentum.X, Ty |-> momentum.Y,
          T |-> TimeRaw(position.T),
          X |-> position.X, Y |-> position.Y, S |-> position.Z,
          Particle |-> At0(children[c]) ]

ProcessHectorHit(array, ub) ==
    Done([i \in DOMAIN array |-> HectorHitEntry(array[i])], array)

(***************************************************************************)
(* TreeWriter::Init                                                        *)
(***************************************************************************)
\* lines 72-84: fClassMap, class -> projector
ClassNames ==
    { "GenParticle", "Vertex", "Track", "Tower", "Photon", "Electron", "Muon",
      "Jet", "MissingET", "ScalarHT", "Rho", "Weight", "HectorHit" }

fClassMap ==
    [ cls \in ClassNames |->
        CASE cls = "GenParticle" -> "ProcessParticles"
          [] cls = "Vertex"      -> "ProcessVertices"
          [] cls = "Track"       -> "ProcessTracks"
          [] cls = "Tower"       -> "ProcessTowers"
          [] cls = "Photon"      -> "ProcessPhotons"
          [] cls = "Electron"    -> "ProcessElectrons"
          [] cls = "Muon"        -> "ProcessMuons"
          [] cls = "Jet"         -> "ProcessJets"
          [] cls = "MissingET"   -> "ProcessMissingET"
          [] cls = "ScalarHT"    -> "ProcessScalarHT"
          [] cls = "Rho"         -> "ProcessRho"
          [] cls = "Weight"      -> "ProcessWeight"
          [] cls = "HectorHit"   -> "ProcessHectorHit" ]

\* gROOT->GetClass(name): the classes the dictionary knows; "Candidate" is one
\* of them that fClassMap does not hold, "NoSuchClass" is unknown
GetClass(name) == IF name \in ClassNames \cup {"Candidate"} THEN name ELSE "null"

\* the names a configuration can give
ConfigClassNames == ClassNames \cup {"Candidate", "NoSuchClass"}

ArrayNames == {"A", "B"}

\* an Init that stops at the first class it cannot resolve (break for continue)
RECURSIVE InitLoopBreak(_, _, _)
InitLoopBreak(i, size, acc) ==
    IF i >= size \div 3 THEN acc
    ELSE LET branchInputArray == param[i * 3 + 1]
             branchName == param[i * 3 + 2]
             branchClassName == param[i * 3 + 3]
             branchClass == GetClass(branchClassName)
         IN  IF branchClass = "null" \/ branchClass \notin DOMAIN fClassMap
             THEN [acc EXCEPT !.log = Append(@, branchClassName)]
             ELSE InitLoopBreak(i + 1, size,
                      [acc EXCEPT !.map = Append(@,
                          [ name |-> branchName, class |-> branchClass,
                            method |-> fClassMap[branchClass],
                            array |-> branchInputArray ])])

\* lines 99-125: the loop over the triples; acc.map is fBranchMap in the order
\* the branches are created, acc.log what was written to cout
RECURSIVE InitLoop(_, _, _)
InitLoop(i, size, acc) ==
    IF i >= size \div 3 THEN acc
    ELSE LET branchInputArray == param[i * 3 + 1]
             branchName == param[i * 3 + 2]
             branchClassName == param[i * 3 + 3]
             branchClass == GetClass(branchClassName)
         IN  IF branchClass = "null"
             THEN InitLoop(i + 1, size, [acc EXCEPT !.log = Append(@, branchClassName)])
             ELSE IF branchClass \notin DOMAIN fClassMap
                  THEN InitLoop(i + 1, size,
                           [acc EXCEPT !.log = Append(@, branchClassName)])
                  ELSE InitLoop(i + 1, size,
                           [acc EXCEPT !.map = Append(@,
                               [ name |-> branchName, class |-> branchClass,
                                 method |-> fClassMap[branchClass],
                                 array |-> branchInputArray ])])

Perms(n) == {p \in [1..n -> 1..n] : NoDup(p)}

\* TreeWriter::Init.  fBranchMap is a std::map keyed by the branch pointers, so
\* the order Process walks it in is the order of the addresses NewBranch
\* returned: any order of the branches, fixed from here on.
InitModule ==
    /\ state = "unconfigured"
    /\ LET acc == InitLoop(0, Len(param), [map |-> <<>>, log |-> <<>>])
       IN  /\ fBranchMap' = acc.map
           /\ errlog' = acc.log
           /\ sinks' = [b \in DOMAIN acc.map |-> <<>>]
           /\ order' \in Perms(Len(acc.map))
    /\ state' = "configured"
    /\ UNCHANGED <<children, subjets, tracks, cand, arrays, param, calls, hist,
                   fillCand, fillArr, fillPrior, fillDone>>

(***************************************************************************)
(* TreeWriter::Process                                                     *)
(***************************************************************************)
\* (this->*method)(branch, array), line 845
Call(method, array, ub) ==
    CASE method = "ProcessParticles" -> ProcessParticles(array, ub)
      [] method = "ProcessVertices"  -> ProcessVertices(array, ub)
      [] method = "ProcessTracks"    -> ProcessTracks(array, ub)
      [] method = "ProcessTowers"    -> ProcessTowers(array, ub)
      [] method = "ProcessPhotons"   -> ProcessPhotons(array, ub)
      [] method = "ProcessElectrons" -> ProcessElectrons(array, ub)
      [] method = "ProcessMuons"     -> ProcessMuons(array, ub)
      [] method = "ProcessJets"      -> ProcessJets(array, ub)
      [] method = "ProcessMissingET" -> ProcessMissingET(array, ub)
      [] method = "ProcessScalarHT"  -> ProcessScalarHT(array, ub)
      [] method = "ProcessRho"       -> ProcessRho(array, ub)
      [] method = "ProcessWeight"    -> ProcessWeight(array, ub)
      [] method = "ProcessHectorHit" -> ProcessHectorHit(array, ub)

\* lines 839-846: the entries in map order; a projector that does not return
\* ends the process
RECURSIVE RunEntries(_, _, _)
RunEntries(it, st, ub) ==
    IF it = <<>> \/ ~st.ok THEN st
    ELSE LET branch == Head(it)
             method == fBranchMap[branch].method
             array == fBranchMap[branch].array
             r == Call(method, st.arrays[array], ub)
         IN  RunEntries(Tail(it),
                 [ arrays |-> [st.arrays EXCEPT ![array] = r.arr],
                   sinks  |-> [st.sinks EXCEPT ![branch] = @ \o r.recs],
                   calls  |-> Append(st.calls,
                                [ branch |-> branch, method |-> method, array |-> array,
                                  input |-> st.arrays[array], arr |-> r.arr,
                                  recs |-> r.recs, ok |-> r.ok ]),
                   ok     |-> r.ok ],
                 ub)

ProcessLoop(it, st, ub) == RunEntries(it, st, ub)

\* a track of a Track branch has no child: line 338 reads through a null pointer
HasNullTrack ==
    \E b \in DOMAIN fBranchMap :
        /\ fBranchMap[b].method = "ProcessTracks"
        /\ \E n \in ArrayNames : \E c \in Range(arrays[n]) : children[c] = <<>>

UBOutcomes == IF HasNullTrack THEN 0..Len(PosList) ELSE {0}

SinksEmpty == \A b \in DOMAIN sinks : sinks[b] = <<>>

\* Process is called once per event, on the branches the tree writer emptied
Process ==
    /\ state = "configured"
    /\ SinksEmpty
    /\ Len(hist) < MaxRuns
    /\ \E ub \in UBOutcomes :
         LET st == ProcessLoop(order,
                       [arrays |-> arrays, sinks |-> sinks, calls |-> <<>>, ok |-> TRUE],
                       ub)
         IN  /\ arrays' = st.arrays
             /\ sinks' = st.sinks
             /\ calls' = st.calls
             /\ state' = IF st.ok THEN "configured" ELSE "aborted"
             /\ hist' = Append(hist, [before |-> arrays, after |-> st.arrays,
                                      graph |-> <<children, subjets, tracks, cand>>,
                                      ub |-> ub, ok |-> st.ok, sinks |-> st.sinks])
    /\ UNCHANGED <<children, subjets, tracks, cand, param, fBranchMap, order, errlog,
                   fillCand, fillArr, fillPrior, fillDone>>

\* the tree writer empties every branch once the event is written
Clear ==
    /\ state = "configured"
    /\ ~SinksEmpty
    /\ sinks' = [b \in DOMAIN sinks |-> <<>>]
    /\ UNCHANGED <<children, subjets, tracks, cand, arrays, param, state, fBranchMap,
                   order, errlog, calls, hist, fillCand, fillArr, fillPrior, fillDone>>

Next == InitModule \/ Process \/ Clear

(***************************************************************************)
(* The events and configurations the program is started on                 *)
(***************************************************************************)
Min(a, b) == IF a <= b THEN a ELSE b

\* the children i+1 .. i+k
Window(i, k) == [j \in 1..k |-> i + j]

\* every candidate is built from up to MaxKids of the candidates after it
WindowGraphs ==
    { [i \in Cand |-> Window(i, ks[i])] :
        ks \in {f \in [Cand -> 0..MaxKids] : \A i \in Cand : i + f[i] <= NCand} }

\* jets over towers over tracks over particles
LayeredGraph == [i \in Cand |-> Window(i, Min(IF i <= 2 THEN MaxKids ELSE 1, NCand - i))]

EventSubjets == [c \in Cand |-> IF c % 2 = 1 /\ c < NCand THEN <<c + 1>> ELSE <<>>]

EventTracks == [c \in Cand |-> IF c + 2 <= NCand THEN <<c + 2>> ELSE <<>>]

EventCand == [c \in Cand |-> CandFields(c)]

\* the arrays an upstream module can export
ArraySeqs(n) == {a \in SeqsUpTo(Cand, n) : NoDup(a)}

Triples == {<<a, "out", c>> : a \in ArrayNames, c \in ConfigClassNames}

\* a configuration: the triples one after the other, and what may follow the
\* last whole triple
Configs ==
    {Concat(ts) \o rest : ts \in SeqsUpTo(Triples, MaxBranches),
                           rest \in {<<>>, <<"B", "out">>}}

InitCommon ==
    /\ subjets = EventSubjets
    /\ tracks = EventTracks
    /\ cand = EventCand
    /\ state = "unconfigured"
    /\ fBranchMap = <<>>
    /\ order = <<>>
    /\ sinks = <<>>
    /\ errlog = <<>>
    /\ calls = <<>>
    /\ hist = <<>>
    /\ fillCand = 0
    /\ fillArr = <<>>
    /\ fillPrior = <<>>
    /\ fillDone = FALSE

\* the arrays of the layered event: "A" is not in the order Sort leaves
LayeredArrays == [n \in ArrayNames |-> IF n = "A" THEN <<NCand, 1>> ELSE <<2>>]

\* the layered event under any configuration, and any arrays under the
\* configurations of one triple
Init ==
    /\ InitCommon
    /\ children = LayeredGraph
    /\ param \in Configs
    /\ arrays \in IF Len(param) <= 3
                  THEN {[n \in ArrayNames |-> IF n = "A" THEN a ELSE b] :
                           a \in ArraySeqs(MaxArr), b \in ArraySeqs(1)}
                  ELSE {LayeredArrays}

Spec == Init /\ [][Next]_vars

\* one branch of any class: any graph under the arrays of one candidate, and
\* any array on the layered graph
InitProj ==
    /\ InitCommon
    /\ children \in WindowGraphs
    /\ arrays \in {[n \in ArrayNames |-> IF n = "A" THEN a ELSE <<>>] :
                      a \in ArraySeqs(IF children = LayeredGraph THEN MaxArr ELSE 1)}
    /\ param \in {<<"A", "out", c>> : c \in ClassNames}

SpecProj == InitProj /\ [][Next]_vars

(***************************************************************************)
(* FillParticles on its own: any graph, any list                           *)
(***************************************************************************)
KidSeqs(i) == SeqsUpTo((i + 1)..NFill, MaxKids)

\* the children of candidates 1..k, each built from candidates after it
RECURSIVE GraphsUpTo(_)
GraphsUpTo(k) ==
    IF k = 0 THEN {<<>>}
    ELSE {Append(g, s) : g \in GraphsUpTo(k - 1), s \in KidSeqs(k)}

FillGraphs == GraphsUpTo(NFill)

InitFill ==
    /\ children \in FillGraphs
    /\ subjets = <<>>
    /\ tracks = <<>>
    /\ cand = <<>>
    /\ arrays = <<>>
    /\ param = <<>>
    /\ state = "unconfigured"
    /\ fBranchMap = <<>>
    /\ order = <<>>
    /\ sinks = <<>>
    /\ errlog = <<>>
    /\ calls = <<>>
    /\ hist = <<>>
    /\ fillCand \in FillCands
    /\ fillArr \in SeqsUpTo({1, NFill}, 1)
    /\ fillPrior = fillArr
    /\ fillDone = FALSE

FillCall ==
    /\ ~fillDone
    /\ fillArr' = FillParticles(fillCand, fillArr)
    /\ fillDone' = TRUE
    /\ UNCHANGED <<children, subjets, tracks, cand, arrays, param, state, fBranchMap,
                   order, sinks, errlog, calls, hist, fillCand, fillPrior>>

NextFill == FillCall

SpecFill == InitFill /\ [][NextFill]_vars

(***************************************************************************)
(* Properties                                                              *)
(***************************************************************************)
\* the first child of g, when it has one
FirstChild(g) == IF children[g] = <<>> THEN <<>> ELSE <<children[g][1]>>

\* what one direct child c contributes to the list
Contribution(c) ==
    IF children[c] = <<>> THEN <<c>>
    ELSE IF children[children[c][1]] = <<>> THEN <<children[c][1]>>
         ELSE Concat([i \in DOMAIN children[c] |-> FirstChild(children[c][i])])

ExpectedFill(candidate) ==
    Concat([i \in DOMAIN children[candidate] |-> Contribution(children[candidate][i])])

\* C1: whatever the list held, after FillParticles(candidate, list) it holds, for
\* the direct children c in order: c when c has no children, c's first child when
\* that child has none, otherwise the first child of every child of c, in order
\* and with repetitions.
C1_FillParticles == fillDone => fillArr = ExpectedFill(fillCand)

\* C1 witness: a list that was not empty, a child of the tower shape, and a
\* leaf that is reached twice
C1_Witness ==
    /\ fillDone
    /\ fillPrior # <<>>
    /\ \E c \in Range(children[fillCand]) :
          children[c] # <<>> /\ children[children[c][1]] # <<>>
    /\ \E i, j \in DOMAIN fillArr : i # j /\ fillArr[i] = fillArr[j]

Grandchildren(candidate) ==
    SumOver([c \in DOMAIN children |-> Len(children[c])], children[candidate])

\* C2 as stated: when every direct child has children, the list is as long as
\* the grandchildren are many.
C2_Original ==
    (fillDone /\ \A c \in Range(children[fillCand]) : children[c] # <<>>)
        => Len(fillArr) = Grandchildren(fillCand)

\* C2, amended: when every direct child has children and every grandchild has a
\* child, the list is as long as the grandchildren are many, a leaf reached
\* more than once being counted each time.
C2_TowerLength ==
    ( /\ fillDone
      /\ \A c \in Range(children[fillCand]) :
            /\ children[c] # <<>>
            /\ \A g \in Range(children[c]) : children[g] # <<>> )
        => Len(fillArr) = Grandchildren(fillCand)

\* C2 witness: such a candidate with two grandchildren under a child, and a leaf
\* that is in the list twice
C2_Witness ==
    /\ fillDone
    /\ children[fillCand] # <<>>
    /\ \A c \in Range(children[fillCand]) :
          /\ Len(children[c]) >= 2
          /\ \A g \in Range(children[c]) : children[g] # <<>>
    /\ \E i, j \in DOMAIN fillArr : i # j /\ fillArr[i] = fillArr[j]

(***************************************************************************)
(* Properties of the projector calls of the last Process                   *)
(***************************************************************************)
InputOrder ==
    { "ProcessParticles", "ProcessVertices", "ProcessTracks", "ProcessTowers",
      "ProcessRho", "ProcessHectorHit" }

SortedOrder == { "ProcessPhotons", "ProcessElectrons", "ProcessMuons", "ProcessJets" }

\* record r carries the fields of candidate c that its class copies
DerivedFrom(method, r, c) ==
    LET momentum == cand[c].Momentum
        position == cand[c].Position
    IN  CASE method \in {"ProcessParticles", "ProcessTracks", "ProcessTowers",
                         "ProcessMuons"} ->
                r.UniqueID = c
          [] method = "ProcessVertices" ->
                <<r.X, r.Y, r.Z>> = <<position.X, position.Y, position.Z>>
          [] method = "ProcessPhotons" ->
                <<r.PT, r.E, r.IsolationVar>>
                    = <<Pt(momentum), momentum.T, cand[c].IsolationVar>>
          [] method = "ProcessElectrons" ->
                <<r.PT, r.Charge, r.IsolationVar>>
                    = <<Pt(momentum), cand[c].Charge, cand[c].IsolationVar>>
          [] method = "ProcessJets" ->
                <<r.PT, r.Area>> = <<Pt(momentum), cand[c].Area>>
          [] method = "ProcessRho" -> r.Rho = momentum.T
          [] method = "ProcessHectorHit" ->
                <<r.E, r.X, r.Y>> = <<momentum.T, position.X, position.Y>>

\* pt is the i-th largest transverse momentum of the candidates of input
IthLargest(input, i, pt) ==
    /\ Cardinality({j \in DOMAIN input : Pt(cand[input[j]].Momentum) > pt}) < i
    /\ Cardinality({j \in DOMAIN input : Pt(cand[input[j]].Momentum) >= pt}) >= i

\* C3: a per-candidate projector that returns has appended one record per
\* candidate of its array, record i from the candidate at position i: the input
\* order, the array untouched, for particles, vertices, tracks, towers, pileup
\* density and far-detector hits; the order the array holds after the sort for
\* photons, electrons, muons and jets, record i with the i-th largest pt.
C3_OneRecordPerCandidate ==
    \A k \in DOMAIN calls :
        LET cl == calls[k]
        IN  (cl.ok /\ cl.method \in InputOrder \cup SortedOrder) =>
              /\ Len(cl.recs) = Len(cl.input)
              /\ Len(cl.arr) = Len(cl.input)
              /\ Range(cl.arr) = Range(cl.input)
              /\ cl.method \in InputOrder => cl.arr = cl.input
              /\ \A i \in DOMAIN cl.recs :
                    /\ DerivedFrom(cl.method, cl.recs[i], cl.arr[i])
                    /\ cl.method \in SortedOrder =>
                          IthLargest(cl.input, i, cl.recs[i].PT)

\* C3 witness: a jet projector has returned from an array of two jets that
\* were not in descending order
C3_Witness ==
    \E k \in DOMAIN calls :
        /\ calls[k].ok
        /\ calls[k].method = "ProcessJets"
        /\ Len(calls[k].input) = 2
        /\ Pt(cand[calls[k].input[1]].Momentum) < Pt(cand[calls[k].input[2]].Momentum)
        /\ Len(calls[k].recs) = 2

\* the angle of the claim: the sentinel on the beam axis, the library's
\* pseudorapidity off it
ExpectedEta(v) ==
    IF v.X = 0 /\ v.Y = 0
    THEN <<"999.9", IF v.Z >= 0 THEN 1 ELSE -1>>
    ELSE <<"Eta", v.X, v.Y, v.Z>>

ExpectedRapidity(v) ==
    IF v.X = 0 /\ v.Y = 0
    THEN <<"999.9", IF v.Z >= 0 THEN 1 ELSE -1>>
    ELSE <<"Rapidity", v.Z, v.T>>

\* the angles of the records of one returned call, missing energy left out
AnglesOf(cl) ==
    \A i \in DOMAIN cl.recs :
        LET r == cl.recs[i]
            momentum == cand[cl.arr[i]].Momentum
            position == cand[cl.arr[i]].Position
        IN  /\ cl.method \in {"ProcessParticles", "ProcessTracks", "ProcessTowers",
                              "ProcessPhotons", "ProcessElectrons", "ProcessMuons",
                              "ProcessJets"} => r.Eta = ExpectedEta(momentum)
            /\ cl.method = "ProcessParticles" => r.Rapidity = ExpectedRapidity(momentum)
            /\ cl.method = "ProcessTracks" => r.EtaOuter = ExpectedEta(position)

\* the projectors other than missing energy keep to the sentinel
SentinelExceptMissingET == \A k \in DOMAIN calls : calls[k].ok => AnglesOf(calls[k])

\* C4: every pseudorapidity and rapidity a record exposes, the missing-energy
\* Eta included, is +999.9 or -999.9 by the sign of the longitudinal component
\* when its vector lies on the beam axis, and the library's value otherwise.
C4_Sentinel ==
    \A k \in DOMAIN calls :
        LET cl == calls[k]
        IN  cl.ok =>
              /\ AnglesOf(cl)
              /\ cl.method = "ProcessMissingET" =>
                    \A i \in DOMAIN cl.recs :
                        cl.recs[i].Eta = ExpectedEta(Neg(cand[cl.arr[1]].Momentum))

\* t * 1.0e-3 / 2.99792458e8
ConvertedTime(t) == IF t = 0 THEN <<0, 0>> ELSE <<t, 1>>

\* the time fields of the records of one returned call, far-detector hits left out
TimesOf(cl) ==
    \A i \in DOMAIN cl.recs :
        LET r == cl.recs[i]
            c == cl.arr[i]
        IN  /\ cl.method \in {"ProcessParticles", "ProcessVertices", "ProcessTowers",
                              "ProcessPhotons", "ProcessElectrons", "ProcessMuons",
                              "ProcessJets"} =>
                  r.T = ConvertedTime(cand[c].Position.T)
            /\ cl.method = "ProcessTracks" =>
                  /\ r.TOuter = ConvertedTime(cand[c].Position.T)
                  /\ children[c] # <<>> =>
                        r.T = ConvertedTime(cand[children[c][1]].Position.T)

\* C5 as stated: every exposed time, the far-detector hit's included, is
\* position.T * 1.0e-3 / 2.99792458e8.
C5_Original ==
    \A k \in DOMAIN calls :
        LET cl == calls[k]
        IN  cl.ok =>
              /\ TimesOf(cl)
              /\ cl.method = "ProcessHectorHit" =>
                    \A i \in DOMAIN cl.recs :
                        cl.recs[i].T = ConvertedTime(cand[cl.arr[i]].Position.T)

\* C5, amended: the particle, vertex, track (T and TOuter), tower, photon,
\* electron, muon and jet times are position.T * 1.0e-3 / 2.99792458e8; the
\* far-detector hit's T is position.T as it is.
C5_TimeConverted ==
    \A k \in DOMAIN calls :
        LET cl == calls[k]
        IN  cl.ok =>
              /\ TimesOf(cl)
              /\ cl.method = "ProcessHectorHit" =>
                    \A i \in DOMAIN cl.recs :
                        cl.recs[i].T = <<cand[cl.arr[i]].Position.T, 0>>

\* C5 witness: a vertex or track record of a candidate whose time is not zero
C5_Witness ==
    \E k \in DOMAIN calls :
        /\ calls[k].ok
        /\ calls[k].method \in {"ProcessVertices", "ProcessTracks"}
        /\ \E i \in DOMAIN calls[k].recs :
              /\ cand[calls[k].arr[i]].Position.T # 0
              /\ calls[k].recs[i].T[1] # 0

\* the ratio field is the sentinel, or had/em with em > 0
IsRatio(val, had, em) ==
    IF em = 0 THEN val = <<"999.9", 1>>
    ELSE /\ val[1] = "ratio"
         /\ val[3] > 0
         /\ val[2] * em = val[3] * had

\* C10: a jet's ratio is the Ehad sum over the Eem sum of its direct children,
\* 999.9 when the Eem sum is zero; a photon's is Ehad/Eem, 999.9 unless
\* Eem > 0; an electron's is 0; no division by zero is evaluated.
C10_EhadOverEem ==
    \A k \in DOMAIN calls :
        LET cl == calls[k]
        IN  cl.ok =>
              \A i \in DOMAIN cl.recs :
                  LET r == cl.recs[i]
                      c == cl.arr[i]
                  IN  /\ cl.method = "ProcessJets" =>
                            IsRatio(r.EhadOverEem,
                                    SumOver([x \in Cand |-> cand[x].Ehad], children[c]),
                                    SumOver([x \in Cand |-> cand[x].Eem], children[c]))
                      /\ cl.method = "ProcessPhotons" =>
                            IsRatio(r.EhadOverEem, cand[c].Ehad, cand[c].Eem)
                      /\ cl.method = "ProcessElectrons" =>
                            r.EhadOverEem = <<"ratio", 0, 1>>

\* C10 witness: a jet whose direct children have deposits Eem = 0, Ehad = 5,
\* and whose leaves differ from its direct children
C10_Witness ==
    \E k \in DOMAIN calls :
        /\ calls[k].ok
        /\ calls[k].method = "ProcessJets"
        /\ \E i \in DOMAIN calls[k].recs :
              LET c == calls[k].arr[i]
              IN  /\ SumOver([x \in Cand |-> cand[x].Eem], children[c]) = 0
                  /\ SumOver([x \in Cand |-> cand[x].Ehad], children[c]) = 5
                  /\ calls[k].recs[i].Particles # calls[k].recs[i].Constituents
                  /\ calls[k].recs[i].EhadOverEem = <<"999.9", 1>>

(***************************************************************************)
(* Properties of the registry and of the sinks                             *)
(***************************************************************************)
\* the references one record holds; 0 is the null reference
Refs(method, r) ==
    CASE method \in {"ProcessTracks", "ProcessElectrons", "ProcessMuons",
                     "ProcessHectorHit"} -> {r.Particle} \ {0}
      [] method \in {"ProcessTowers", "ProcessPhotons"} -> Range(r.Particles)
      [] method = "ProcessJets" ->
            Range(r.Particles) \cup Range(r.Constituents)
                \cup Range(r.Subjets) \cup Range(r.Tracks)
      [] OTHER -> {}

\* the identifiers of the records in the sinks; 0 is a record without one
EmittedIds ==
    UNION { {sinks[b][i].UniqueID : i \in DOMAIN sinks[b]} : b \in DOMAIN sinks } \ {0}

\* C6: after a Process that returned, every reference stored in a record of any
\* sink is the unique identifier of a record emitted into a sink in the same event.
C6_NoDangling ==
    state = "configured" =>
        \A b \in DOMAIN sinks : \A i \in DOMAIN sinks[b] :
            Refs(fBranchMap[b].method, sinks[b][i]) \subseteq EmittedIds

\* the whole triples of the configuration, in order
TriplesOf(p) == [i \in 1..(Len(p) \div 3) |-> <<p[3 * i - 2], p[3 * i - 1], p[3 * i]>>]

IsKnown(t) == t[3] \in ClassNames

KnownTriples == SelectSeq(TriplesOf(param), IsKnown)

UnknownTriples == SelectSeq(TriplesOf(param), LAMBDA t : ~IsKnown(t))

\* C7: after Init the registry holds one (projector, array) entry for exactly
\* the triples of a known class, in their order; every other triple is reported
\* and has no branch; and a Process that returns has called the projector of
\* every entry exactly once, with the entry's own branch and array.
C7_Registry ==
    state # "unconfigured" =>
        /\ Len(fBranchMap) = Len(KnownTriples)
        /\ \A i \in DOMAIN fBranchMap :
              /\ fBranchMap[i].array = KnownTriples[i][1]
              /\ fBranchMap[i].name = KnownTriples[i][2]
              /\ fBranchMap[i].class = KnownTriples[i][3]
              /\ fBranchMap[i].method = fClassMap[KnownTriples[i][3]]
        /\ errlog = [i \in DOMAIN UnknownTriples |-> UnknownTriples[i][3]]
        /\ DOMAIN sinks = DOMAIN fBranchMap
        /\ (state = "configured" /\ hist # <<>>) =>
              \A b \in DOMAIN fBranchMap :
                  /\ Cardinality({k \in DOMAIN calls : calls[k].branch = b}) = 1
                  /\ \A k \in DOMAIN calls :
                        calls[k].branch = b =>
                            /\ calls[k].method = fBranchMap[b].method
                            /\ calls[k].array = fBranchMap[b].array

\* C7 witness: a triple of an unknown class came before one of a known class,
\* and Process has run the registry
C7_Witness ==
    /\ state = "configured"
    /\ hist # <<>>
    /\ Len(param) >= 6
    /\ ~IsKnown(TriplesOf(param)[1])
    /\ IsKnown(TriplesOf(param)[2])
    /\ Len(calls) = 1
    /\ Len(errlog) = 1

DistinctArrays ==
    \A b1, b2 \in DOMAIN fBranchMap :
        b1 # b2 => fBranchMap[b1].array # fBranchMap[b2].array

\* the sinks the run h would have filled had the entries been taken in order p
SinksInOrder(h, p) ==
    ProcessLoop(p, [ arrays |-> h.before,
                     sinks |-> [b \in DOMAIN fBranchMap |-> <<>>],
                     calls |-> <<>>, ok |-> TRUE ], h.ub).sinks

\* C8: for every configuration Init accepts, the records each sink receives are
\* the same for every order in which Process runs the registry entries, the
\* entries having no data dependency on each other.
C8_Independent ==
    \A j \in DOMAIN hist :
        hist[j].ok =>
            \A p \in Perms(Len(fBranchMap)) : SinksInOrder(hist[j], p) = hist[j].sinks

OrderIndependent == C8_Independent

\* the entries of a registry without a shared array can run in any order
OrderIndependentWhenDistinct == DistinctArrays => OrderIndependent

\* C9: two runs of Process on the same event graph, each started on empty
\* sinks, leave records that are equal field for field and in the same order.
C9_Idempotent ==
    \A i, j \in DOMAIN hist :
        (hist[i].ok /\ hist[j].ok) => hist[i].sinks = hist[j].sinks

\* two runs of a registry without a shared array leave the same records
IdempotentWhenDistinct == DistinctArrays => C9_Idempotent

(***************************************************************************)
(* The event-level projectors                                              *)
(***************************************************************************)
\* what the claim expects of one event-level record of candidate c: nothing of
\* it is read from the candidate's children
ExpectedSingleton(method, c) ==
    LET momentum == cand[c].Momentum
    IN  CASE method = "ProcessMissingET" ->
                [ UniqueID |-> 0,
                  Eta |-> <<"Eta", -momentum.X, -momentum.Y, -momentum.Z>>,
                  Phi |-> <<"Phi", -momentum.X, -momentum.Y>>,
                  MET |-> ISqrt(momentum.X * momentum.X + momentum.Y * momentum.Y) ]
          [] method = "ProcessScalarHT" ->
                [ UniqueID |-> 0,
                  HT |-> ISqrt(momentum.X * momentum.X + momentum.Y * momentum.Y) ]
          [] method = "ProcessWeight" -> [ UniqueID |-> 0, Weight |-> momentum.T ]
          [] method = "ProcessRho" -> [ UniqueID |-> 0, Rho |-> momentum.T ]

\* C11: the missing-energy, scalar-sum and generator-weight projectors emit one
\* record, built from the first entry of the array alone, when the array has a
\* first entry and none when it is empty; the missing-energy record has MET the
\* transverse magnitude of the momentum and Eta and Phi of the negated momentum;
\* the pileup-density projector emits one record per entry in input order; no
\* field of these records depends on any candidate's children, and the array
\* is left as it was.
C11_EventLevel ==
    \A k \in DOMAIN calls :
        LET cl == calls[k]
        IN  /\ cl.method \in {"ProcessMissingET", "ProcessScalarHT", "ProcessWeight"} =>
                  /\ cl.ok
                  /\ cl.arr = cl.input
                  /\ cl.recs = IF cl.input = <<>> THEN <<>>
                               ELSE <<ExpectedSingleton(cl.method, cl.input[1])>>
            /\ cl.method = "ProcessRho" =>
                  /\ cl.ok
                  /\ cl.arr = cl.input
                  /\ cl.recs = [i \in DOMAIN cl.input |->
                                   ExpectedSingleton("ProcessRho", cl.input[i])]

\* C11 witness: a missing-energy call on an array of two candidates, the first
\* of which has children and a transverse momentum, has emitted one record
C11_Witness ==
    \E k \in DOMAIN calls :
        /\ calls[k].method = "ProcessMissingET"
        /\ Len(calls[k].input) = 2
        /\ children[calls[k].input[1]] # <<>>
        /\ Len(calls[k].recs) = 1
        /\ calls[k].recs[1].MET > 0

\* a scalar-sum call on an empty array has emitted nothing
EmptySingletonReached ==
    \E k \in DOMAIN calls :
        /\ calls[k].method = "ProcessScalarHT"
        /\ calls[k].input = <<>>
        /\ calls[k].recs = <<>>

(***************************************************************************)
(* Data-shape violations                                                   *)
(***************************************************************************)
\* the projectors that store the first child as the originating particle
\* (lines 337-345, 493, 545, 826)
NeedsParticle == {"ProcessTracks", "ProcessElectrons", "ProcessMuons", "ProcessHectorHit"}

\* the projectors that call FillParticles (lines 391, 442, 716)
Flattens == {"ProcessTowers", "ProcessPhotons", "ProcessJets"}

\* FillParticles(c, ...) takes its tower branch for a direct child and one of
\* the grandchildren it then iterates has no children
TowerBranchHole(c) ==
    \E i \in DOMAIN children[c] :
        LET d == children[c][i]
        IN  /\ children[d] # <<>>
            /\ children[children[d][1]] # <<>>
            /\ \E j \in DOMAIN children[d] : children[children[d][j]] = <<>>

ShapeViolation(cl) ==
    \/ /\ cl.method \in NeedsParticle
       /\ \E i \in DOMAIN cl.input : children[cl.input[i]] = <<>>
    \/ /\ cl.method \in Flattens
       /\ \E i \in DOMAIN cl.input : TowerBranchHole(cl.input[i])

\* C12: a projector call whose array holds a track, electron, muon or
\* far-detector hit without children, or a candidate whose flattening meets a
\* grandchild without children in the tower branch, does not return: it ends in
\* a failure, and no record of it holds a null originating particle.
C12_FailsLoudly ==
    \A k \in DOMAIN calls :
        LET cl == calls[k]
        IN  ShapeViolation(cl) =>
              /\ ~cl.ok
              /\ cl.method \in NeedsParticle =>
                    \A i \in DOMAIN cl.recs : cl.recs[i].Particle # 0

\* a call on a well-shaped array stores no null originating particle
NoNullParticleWhenShaped ==
    \A k \in DOMAIN calls :
        LET cl == calls[k]
        IN  (cl.ok /\ ~ShapeViolation(cl) /\ cl.method \in NeedsParticle) =>
                \A i \in DOMAIN cl.recs : cl.recs[i].Particle # 0

\* an electron, muon or far-detector-hit call has returned a record whose
\* originating particle is null
SilentNullParticle ==
    \E k \in DOMAIN calls :
        /\ calls[k].ok
        /\ calls[k].method \in NeedsParticle \ {"ProcessTracks"}
        /\ \E i \in DOMAIN calls[k].recs : calls[k].recs[i].Particle = 0

\* a tower, photon or jet call has returned although a grandchild of the tower
\* branch had no first child to add
SilentTowerHole ==
    \E k \in DOMAIN calls :
        /\ calls[k].ok
        /\ calls[k].method \in Flattens
        /\ \E i \in DOMAIN calls[k].input : TowerBranchHole(calls[k].input[i])

(***************************************************************************)
(* What Process leaves of its input                                        *)
(***************************************************************************)
\* the candidates, their children, subjets and tagging tracks are as they
\* were when the run h started
GraphKept(h) == h.graph = <<children, subjets, tracks, cand>>

\* a registry entry that sorts is bound to the array named n
BoundToSort(n) ==
    \E b \in DOMAIN fBranchMap :
        /\ fBranchMap[b].array = n
        /\ fBranchMap[b].method \in SortedOrder

\* C13 as stated: after any number of Process calls every candidate's fields
\* and sequences, and the contents and element order of every array, are the
\* same as before the call.
C13_Original ==
    \A j \in DOMAIN hist :
        /\ GraphKept(hist[j])
        /\ hist[j].after = hist[j].before

\* C13, amended: Process leaves every candidate's fields and its children,
\* subjets and tagging tracks as they were, and every array with the elements
\* it had; the element order is kept for the arrays bound to no photon,
\* electron, muon or jet entry, the others being left sorted in place.
C13_ReadOnly ==
    \A j \in DOMAIN hist :
        /\ GraphKept(hist[j])
        /\ \A n \in ArrayNames :
              /\ Len(hist[j].after[n]) = Len(hist[j].before[n])
              /\ Range(hist[j].after[n]) = Range(hist[j].before[n])
              /\ ~BoundToSort(n) => hist[j].after[n] = hist[j].before[n]
              /\ hist[j].after[n] \in {hist[j].before[n], Sort(hist[j].before[n])}

\* C13 witness: a Process has run a sorting entry on an array that was not in
\* sorted order, next to an array no sorting entry is bound to
C13_Witness ==
    \E j \in DOMAIN hist :
        /\ hist[j].ok
        /\ hist[j].after["A"] # hist[j].before["A"]
        /\ ~BoundToSort("B")
        /\ \E b \in DOMAIN fBranchMap : fBranchMap[b].array = "B"
        /\ hist[j].before["B"] # <<>>

====
